---- MODULE Spec2Model ----
(***************************************************************************)
(* The per-chat round engine of crocodile-bot (src/bot.py): one GameState, *)
(* the player_stats table, the handler coroutines the dispatcher runs      *)
(* concurrently and the round_timer tasks.  Every await of the source is a *)
(* suspension point: an action runs one coroutine from one await to the    *)
(* next, as the asyncio event loop does.                                   *)
(*                                                                         *)
(* Abstractions: one chat; timestamps are not kept, an elapsed time is an  *)
(* input drawn when the code computes one; the float time totals, the      *)
(* fastest times and the username of a stats row are left out (no modelled *)
(* decision reads them); a database call takes effect when its await       *)
(* returns; there is no clock, an asyncio.sleep or any other await may     *)
(* return at any later step.                                               *)
(***************************************************************************)
EXTENDS Integers, Sequences, FiniteSets, TLC

(* ------------------------------ bounds -------------------------------- *)
\* inbound events (messages, button presses, commands) handled in one run
MaxEvents == 4
\* handler coroutines suspended at an await at the same time
MaxHandlers == 2

(* ----------------------------- constants ------------------------------ *)
ROUND_TIME == 180
WARNING_TIME == 30

Players == {1, 2, 3}
NoneId == 0
NoneWord == "None"

\* words_list (the fallback list's first two words, transliterated)
Words == {"kot", "stol"}

\* the characters of every token the model uses
Chars(w) ==
  CASE w = "kot" -> <<"k", "o", "t">>
    [] w = "Kot" -> <<"K", "o", "t">>
    [] w = "stol" -> <<"s", "t", "o", "l">>
    [] w = "kit" -> <<"k", "i", "t">>
    [] w = "zver" -> <<"z", "v", "e", "r">>
    [] w = "eto" -> <<"e", "t", "o">>

\* str.lower() on one character
LowerChar(c) == IF c = "K" THEN "k" ELSE c

Lower(cs) == [i \in 1..Len(cs) |-> LowerChar(cs[i])]

RECURSIVE SumSeq(_)
SumSeq(s) == IF s = <<>> THEN 0 ELSE Head(s) + SumSeq(Tail(s))

Max(a, b) == IF a >= b THEN a ELSE b

(* ------------------------- pure functions ----------------------------- *)
\* int(math.sqrt(x)) for a non-negative integer x
ISqrt(x) == CHOOSE k \in 0..x : k * k <= x /\ (k + 1) * (k + 1) > x

calculate_level_from_exp(exp) == Max(1, ISqrt(exp \div 100) + 1)

exp_for_next_level(current_level) == current_level * current_level * 100

\* difflib.SequenceMatcher.find_longest_match: the longest common block,
\* the earliest in a and then the earliest in b among the longest
Blocks(a, b) ==
  {<<i, j, k>> \in (1..Len(a)) \X (1..Len(b)) \X (1..Len(a)) :
      /\ i + k - 1 <= Len(a)
      /\ j + k - 1 <= Len(b)
      /\ SubSeq(a, i, i + k - 1) = SubSeq(b, j, j + k - 1)}

LongestMatch(a, b) ==
  CHOOSE m \in Blocks(a, b) :
    \A n \in Blocks(a, b) :
      \/ n[3] < m[3]
      \/ n[3] = m[3] /\ m[1] < n[1]
      \/ n[3] = m[3] /\ m[1] = n[1] /\ m[2] <= n[2]

\* the number of matched characters of get_matching_blocks
RECURSIVE Matches(_, _)
Matches(a, b) ==
  IF Blocks(a, b) = {} THEN 0
  ELSE LET m == LongestMatch(a, b)
       IN m[3] + Matches(SubSeq(a, 1, m[1] - 1), SubSeq(b, 1, m[2] - 1))
               + Matches(SubSeq(a, m[1] + m[3], Len(a)), SubSeq(b, m[2] + m[3], Len(b)))

\* ratio() = 2.0 * M / T as the fraction <<2 * M, T>>
word_similarity(word1, word2) ==
  LET a == Lower(Chars(word1))
      b == Lower(Chars(word2))
  IN <<2 * Matches(a, b), Len(a) + Len(b)>>

\* a text is the sequence of its \b\w+\b tokens; threshold = 0.6
contains_similar_word(text, target_word) ==
  \E i \in 1..Len(text) :
    LET r == word_similarity(text[i], target_word)
    IN 10 * r[1] >= 6 * r[2]

is_single_word_guess(text) == Len(text) = 1

\* word.lower().replace(yo, ye) on one character ("yo" stands for the
\* letter the source folds to "ye")
NormChar(c) == IF LowerChar(c) = "yo" THEN "ye" ELSE LowerChar(c)

normalize_word(word) == [i \in 1..Len(Chars(word)) |-> NormChar(Chars(word)[i])]

is_word_guessed(message_text, target_word) ==
  /\ target_word # NoneWord
  /\ message_text # <<>>
  /\ \E i \in 1..Len(message_text) :
        normalize_word(message_text[i]) = normalize_word(target_word)

\* calculate_guess_exp with the bonuses of two speed bands exchanged
calculate_guess_exp_bands(guess_time, position, total_competitors) ==
  LET base_exp == 40
      speed_bonus == IF guess_time < 10 THEN 80
                     ELSE IF guess_time < 20 THEN 30
                     ELSE IF guess_time < 40 THEN 50
                     ELSE IF guess_time < 80 THEN 15
                     ELSE 0
      position_bonus == IF position = 1 /\ total_competitors > 1 THEN 60
                        ELSE IF position = 1 THEN 30
                        ELSE 0
  IN Max(15, base_exp + speed_bonus + position_bonus)

calculate_guess_exp(guess_time, position, total_competitors) ==
  LET base_exp == 40
      speed_bonus == IF guess_time < 10 THEN 80
                     ELSE IF guess_time < 20 THEN 50
                     ELSE IF guess_time < 40 THEN 30
                     ELSE IF guess_time < 80 THEN 15
                     ELSE 0
      position_bonus == IF position = 1 /\ total_competitors > 1 THEN 60
                        ELSE IF position = 1 THEN 30
                        ELSE 0
  IN Max(15, base_exp + speed_bonus + position_bonus)

\* calculate_leader_exp with a quality bonus from the second word on
calculate_leader_exp_two(round_time, total_words_in_explanation, was_guessed) ==
  IF ~was_guessed THEN 10
  ELSE LET base_exp == 100
           quality_bonus == IF total_words_in_explanation >= 15 THEN 50
                            ELSE IF total_words_in_explanation >= 8 THEN 30
                            ELSE IF total_words_in_explanation >= 2 THEN 10
                            ELSE 0
       IN Max(20, base_exp + quality_bonus)

calculate_leader_exp(round_time, total_words_in_explanation, was_guessed) ==
  IF ~was_guessed THEN 10
  ELSE LET base_exp == 100
           quality_bonus == IF total_words_in_explanation >= 15 THEN 50
                            ELSE IF total_words_in_explanation >= 8 THEN 30
                            ELSE IF total_words_in_explanation >= 4 THEN 10
                            ELSE 0
       IN Max(20, base_exp + quality_bonus)

\* int(K * (1 - expected) * competition_multiplier) as a step function of
\* s = sum(competitors_elos) - n * winner_elo, tabulated from the float
\* expression of the source for n = 1, 2: the value below the first step and
\* the values of s at which it grows by one
EloSteps(n) ==
  CASE n = 1 -> <<0, {-613, -488, -412, -356, -312, -274, -242, -212, -185, -160,
                      -136, -114, -92, -72, -51, -31, -11, 8, 28, 48, 68, 89, 111,
                      133, 156, 181, 208, 236, 269, 305, 348, 400, 471, 581, 898}>>
    [] n = 2 -> <<0, {-1258, -1008, -857, -747, -659, -585, -521, -463, -411, -362,
                      -317, -273, -232, -193, -154, -116, -79, -43, -7, 29, 66, 103,
                      140, 178, 217, 258, 300, 345, 392, 443, 498, 560, 629, 711,
                      811, 941, 1138, 1583}>>

\* calculate_elo_change without the final max(5, change)
calculate_elo_change_raw(winner_elo, competitors_elos, guess_time) ==
  IF competitors_elos = <<>> THEN 10
  ELSE LET n == Len(competitors_elos)
           s == SumSeq(competitors_elos) - n * winner_elo
           change == EloSteps(n)[1] + Cardinality({t \in EloSteps(n)[2] : t <= s})
       IN change

calculate_elo_change(winner_elo, competitors_elos, guess_time) ==
  IF competitors_elos = <<>> THEN 10
  ELSE LET n == Len(competitors_elos)
           s == SumSeq(competitors_elos) - n * winner_elo
           change == EloSteps(n)[1] + Cardinality({t \in EloSteps(n)[2] : t <= s})
       IN Max(5, change)

(* ------------------------------ state --------------------------------- *)
VARIABLES
  game,      \* games[chat_id]: the GameState of the chat
  stats,     \* the player_stats table of the chat, by user_id
  handlers,  \* the handler coroutines suspended at an await
  timers,    \* every round_timer task created so far, by task id
  hist,      \* history: what has been resolved in the current round instance
  seen,      \* history: the players that have acted so far are 1..seen
  events,    \* history: inbound events that changed the state so far
  reset_requests,  \* reset_requests[user_id], one dictionary for all chats
  reset_tasks,     \* every reset_stats_timeout task created so far, by task id
  other_stats,     \* the player_stats rows of a second chat, by user_id
  calc       \* a call of one of the scoring functions: arguments and result

vars == <<game, stats, handlers, timers, hist, seen, events,
          reset_requests, reset_tasks, other_stats, calc>>

\* what the handlers and the timer of the game never touch
aside == <<reset_requests, reset_tasks, other_stats, calc>>

\* `user_id not in reset_requests`
NoRequest == [chat_id |-> 0, cancel_task |-> 0]

NoCalc == [fn |-> "none", guess_time |-> 0, position |-> 0, total |-> 0,
           winner_elo |-> 0, elos |-> <<>>, done |-> FALSE, out |-> 0]

NoneTime == "None"
SomeTime == "t"

\* elapsed seconds datetime.now() - <a timestamp> can yield
GuessTimes == {8, 45}

\* message texts, as their token sequences
Texts == {<<"Kot">>, <<"stol">>, <<"kit">>, <<"eto", "zver">>}

\* load_player_stats's row for a player that has none
DefaultStats ==
  [username |-> NoneWord, words_explained |-> 0, words_guessed |-> 0, level |-> 1,
   experience |-> 0, elo_rating |-> 1000, short_explanations |-> 0, violations |-> 0]

\* GameState.__init__
NewGameState ==
  [leader_id |-> NoneId, current_word |-> NoneWord, is_game_active |-> FALSE,
   word_guessed |-> FALSE, round_start_time |-> NoneTime, timer_task |-> 0,
   warning_sent |-> FALSE, leader_messages |-> <<>>,
   leader_first_message_time |-> NoneTime, guessing_started |-> FALSE,
   competitors |-> <<>>]

\* a free slot of the handler pool
IdleHandler ==
  [pc |-> "idle", kind |-> "none", user |-> NoneId, cur |-> FALSE, await |-> 0,
   words |-> 0, abuse |-> FALSE, violation |-> FALSE, guess_time |-> 0,
   wstats |-> DefaultStats, comp |-> NoneId, iter |-> <<>>, elos |-> <<>>,
   attached |-> FALSE, broken |-> FALSE, lstats |-> DefaultStats, key |-> NoneId,
   exp_gained |-> 0, elo_change |-> 0, leader_exp |-> 0, chat |-> 0,
   total |-> 0]

\* asyncio.create_task(round_timer(chat_id)).  cur: the round instance it
\* was created in is still the current one; act: so is the one it is
\* warning or timing out
NewTimer ==
  [state |-> "sleep1", cancel |-> FALSE, cur |-> TRUE, act |-> FALSE,
   lid |-> NoneId, lstats |-> DefaultStats]

\* a task that has returned, was cancelled or raised
EndedTimer == [NewTimer EXCEPT !.state = "done", !.cur = FALSE]

NoHist == [matched |-> 0, wins |-> 0, lupd |-> 0, victory |-> 0, warns |-> 0,
           timeouts |-> 0, penalties |-> 0, said |-> 0]

HandlerIds == 1..MaxHandlers

\* asyncio.Task.done()
TimerDone(t) == t.state = "done"

Live(i) == ~TimerDone(timers[i])

FreeSlot == CHOOSE h \in HandlerIds :
              /\ handlers[h].pc = "idle"
              /\ \A k \in HandlerIds : handlers[k].pc = "idle" => h <= k

CanAccept == \E h \in HandlerIds : handlers[h].pc = "idle"

\* count an outcome of a task, when the task's round instance is the current one
Bump(field, cur) == IF cur THEN [hist EXCEPT ![field] = @ + 1] ELSE hist

\* a new round instance starts: the tasks of the earlier ones are marked
Stale(tasks) == [k \in DOMAIN tasks |-> [tasks[k] EXCEPT !.cur = FALSE]]

StaleTimers(ts) == [k \in DOMAIN ts |-> [ts[k] EXCEPT !.cur = FALSE, !.act = FALSE]]

\* players are interchangeable: they enter in the order of their ids
MayAct(u) == u <= seen + 1

Init ==
  /\ game = NewGameState
  /\ stats = [p \in Players |-> DefaultStats]
  /\ handlers = [h \in HandlerIds |-> IdleHandler]
  /\ timers = <<>>
  /\ hist = NoHist
  /\ seen = 0
  /\ events = 0
  /\ reset_requests = [p \in Players |-> NoRequest]
  /\ reset_tasks = <<>>
  /\ other_stats = [p \in Players |-> DefaultStats]
  /\ calc = NoCalc

(* ------------------------ shared sub-steps ---------------------------- *)
\* game.competitors = {} rebinds the field: a for loop that is iterating
\* the old dict keeps it and no longer sees later insertions
Detach(hs) ==
  [k \in HandlerIds |->
     IF hs[k].pc = "hcg_load_comp" THEN [hs[k] EXCEPT !.attached = FALSE] ELSE hs[k]]

\* game.competitors[user_id] = {...} grows the dict: an iterator over it
\* raises RuntimeError at its next step
Grow(hs) ==
  [k \in HandlerIds |->
     IF hs[k].pc = "hcg_load_comp" /\ hs[k].attached
     THEN [hs[k] EXCEPT !.broken = TRUE] ELSE hs[k]]

\* start_round_timer after its cancel_timer: the new timer task is `id`
StartRoundTimerRest(g, id) ==
  [g EXCEPT !.round_start_time = SomeTime, !.warning_sent = FALSE,
            !.leader_messages = <<>>, !.leader_first_message_time = NoneTime,
            !.guessing_started = FALSE, !.competitors = <<>>, !.timer_task = id]

\* cmd_stop and callback_end_round as they would be without the reset of
\* guessing_started
ClearManualStillOpen(g) ==
  [g EXCEPT !.is_game_active = FALSE, !.leader_id = NoneId,
            !.current_word = NoneWord, !.word_guessed = FALSE,
            !.round_start_time = NoneTime, !.leader_messages = <<>>,
            !.competitors = <<>>]

\* the field resets of cmd_stop and callback_end_round
ClearManual(g) ==
  [g EXCEPT !.is_game_active = FALSE, !.leader_id = NoneId,
            !.current_word = NoneWord, !.word_guessed = FALSE,
            !.round_start_time = NoneTime, !.leader_messages = <<>>,
            !.guessing_started = FALSE, !.competitors = <<>>]

\* the field resets at the end of round_timer
ClearTimeout(g) ==
  [g EXCEPT !.leader_id = NoneId, !.current_word = NoneWord,
            !.round_start_time = NoneTime, !.leader_messages = <<>>,
            !.leader_first_message_time = NoneTime, !.guessing_started = FALSE,
            !.competitors = <<>>]

\* the field resets at the end of handle_correct_guess
ClearWin(g) == [ClearTimeout(g) EXCEPT !.word_guessed = FALSE]

\* sum(len(re.findall(r'\b\w+\b', msg)) for msg in game.leader_messages)
RECURSIVE TotalWords(_)
TotalWords(msgs) == IF msgs = <<>> THEN 0 ELSE Len(Head(msgs)) + TotalWords(Tail(msgs))

ViolationIn(msgs, word) ==
  \E i \in 1..Len(msgs) : contains_similar_word(msgs[i], word)

\* handle_correct_guess from round_time to the first load: datetime.now() -
\* None raises TypeError, None.lower() raises AttributeError
HcgAfterCancel(h, rec, g, hs, ts, hi) ==
  IF \/ g.round_start_time = NoneTime
     \/ g.leader_messages # <<>> /\ g.current_word = NoneWord
  THEN [g |-> g, hs |-> [hs EXCEPT ![h] = IdleHandler], ts |-> ts, hi |-> hi]
  ELSE LET words == TotalWords(g.leader_messages)
       IN [g |-> g,
           hs |-> [hs EXCEPT ![h] =
                     [rec EXCEPT !.pc = "hcg_load_winner", !.await = 0,
                                 !.words = words,
                                 !.abuse = (words <= 3 /\ g.leader_messages # <<>>),
                                 !.violation = ViolationIn(g.leader_messages,
                                                           g.current_word)]],
           ts |-> ts, hi |-> hi]

\* what follows `await cancel_timer(game)` in the handler `rec`, with the
\* two assignments that end cancel_timer already made in g.  kind "start":
\* start_round_timer (join_game, show_word, new_word, share_word), after
\* which these handlers change nothing; "clear": cmd_stop, callback_end_round
AfterCancel(h, rec, g, hs, ts, hi) ==
  CASE rec.kind = "start" ->
         [g |-> StartRoundTimerRest(g, Len(ts) + 1),
          hs |-> Detach([hs EXCEPT ![h] = IdleHandler]),
          ts |-> Append(ts, NewTimer), hi |-> hi]
    [] rec.kind = "clear" ->
         [g |-> ClearManual(g), hs |-> Detach([hs EXCEPT ![h] = IdleHandler]),
          ts |-> ts, hi |-> hi]
    [] rec.kind = "guess" -> HcgAfterCancel(h, rec, g, hs, ts, hi)

\* cancel_timer: a live task is cancelled and awaited, and the caller is
\* suspended until it has ended; otherwise cancel_timer does not yield
cancel_timer(h, rec, g, hs, ts, hi) ==
  IF g.timer_task # 0 /\ ~TimerDone(ts[g.timer_task])
  THEN [g |-> g,
        hs |-> [hs EXCEPT ![h] = [rec EXCEPT !.pc = "cancel_wait",
                                              !.await = g.timer_task]],
        ts |-> [ts EXCEPT ![g.timer_task].cancel = TRUE], hi |-> hi]
  ELSE AfterCancel(h, rec, [g EXCEPT !.timer_task = 0, !.warning_sent = FALSE],
                   hs, ts, hi)

\* A finished task that neither game.timer_task nor a suspended cancel_timer
\* references is garbage: it is dropped and the task ids are renumbered.
Kept(g, hs, ts) ==
  {i \in 1..Len(ts) :
     \/ ~TimerDone(ts[i])
     \/ g.timer_task = i
     \/ \E h \in HandlerIds : hs[h].pc = "cancel_wait" /\ hs[h].await = i}

Renumber(keep, i) == IF i = 0 THEN 0 ELSE Cardinality({k \in keep : k <= i})

Settle(g, hs, ts) ==
  LET keep == Kept(g, hs, ts)
      KeptId(i) == i \in keep
      ids == SelectSeq([i \in 1..Len(ts) |-> i], KeptId)
  IN /\ game' = [g EXCEPT !.timer_task = Renumber(keep, @)]
     /\ handlers' = [h \in HandlerIds |-> [hs[h] EXCEPT !.await = Renumber(keep, @)]]
     /\ timers' = [k \in 1..Len(ids) |-> ts[ids[k]]]

Apply(r) == Settle(r.g, r.hs, r.ts) /\ hist' = r.hi

Handler(kind, u) == [IdleHandler EXCEPT !.kind = kind, !.user = u, !.cur = TRUE]

\* an event its handler answers without touching the state
Rejected == UNCHANGED vars

Accepted(u) == events < MaxEvents /\ events' = events + 1 /\ seen' = Max(seen, u)

(* ------------------------- inbound events ----------------------------- *)
\* callback_join_game up to `await query.answer()`
JoinGame(u) ==
  /\ MayAct(u)
  /\ IF game.is_game_active /\ game.leader_id # u
     THEN Rejected
     ELSE /\ CanAccept /\ Accepted(u)
          /\ handlers' = [handlers EXCEPT ![FreeSlot] =
                            [Handler("join", u) EXCEPT !.pc = "join_answer"]]
          /\ UNCHANGED <<game, stats, timers, hist>>
  /\ UNCHANGED aside

\* send_leader_instructions up to `await bot.send_message(...)`: a round
\* instance starts
JoinAnswered(h) ==
  /\ handlers[h].pc = "join_answer"
  /\ \E w \in Words :
       game' = [game EXCEPT !.leader_id = handlers[h].user, !.is_game_active = TRUE,
                            !.word_guessed = FALSE, !.current_word = w]
  /\ handlers' = [Stale(handlers) EXCEPT ![h] =
                    [Handler("start", NoneId) EXCEPT !.pc = "sli_send"]]
  /\ timers' = StaleTimers(timers)
  /\ hist' = NoHist
  /\ UNCHANGED <<stats, seen, events>>
  /\ UNCHANGED aside

\* callback_join_game's `await start_round_timer(chat_id)`
SliSent(h) ==
  /\ handlers[h].pc = "sli_send"
  /\ Apply(cancel_timer(h, handlers[h], game, handlers, timers, hist))
  /\ UNCHANGED <<stats, seen, events>>
  /\ UNCHANGED aside

\* the end of `await game.timer_task` in cancel_timer, and the caller's code
\* after cancel_timer
CancelWaitDone(h) ==
  /\ handlers[h].pc = "cancel_wait"
  /\ TimerDone(timers[handlers[h].await])
  /\ Apply(AfterCancel(h, handlers[h],
                       [game EXCEPT !.timer_task = 0, !.warning_sent = FALSE],
                       handlers, timers, hist))
  /\ UNCHANGED <<stats, seen, events>>
  /\ UNCHANGED aside

\* callback_show_word: it changes the state when round_start_time is None
ShowWord(u) ==
  /\ MayAct(u)
  /\ IF game.leader_id # u \/ ~game.is_game_active \/ game.round_start_time # NoneTime
     THEN Rejected
     ELSE /\ CanAccept /\ Accepted(u)
          /\ Apply(cancel_timer(FreeSlot, Handler("start", NoneId), game, handlers,
                                timers, hist))
          /\ UNCHANGED stats
  /\ UNCHANGED aside

\* callback_new_word and callback_share_word change the state alike: a
\* round instance starts with the same leader
ChangeWord(u) ==
  /\ MayAct(u)
  /\ IF game.leader_id # u
     THEN Rejected
     ELSE /\ CanAccept /\ Accepted(u)
          /\ \E w \in Words :
               Apply(cancel_timer(FreeSlot, Handler("start", NoneId),
                                  [game EXCEPT !.current_word = w], Stale(handlers),
                                  StaleTimers(timers), NoHist))
          /\ UNCHANGED stats
  /\ UNCHANGED aside

NewWord(u) == ChangeWord(u)

ShareWord(u) == ChangeWord(u)

\* callback_end_round without the check of l.1038: anyone ends the round
EndRoundAnyone(u) ==
  /\ MayAct(u)
  /\ CanAccept /\ Accepted(u)
  /\ handlers' = [handlers EXCEPT ![FreeSlot] =
                    [Handler("clear", NoneId) EXCEPT !.pc = "end_answer"]]
  /\ UNCHANGED <<game, stats, timers, hist>>
  /\ UNCHANGED aside

\* callback_end_round up to `await query.answer()`
EndRound(u) ==
  /\ MayAct(u)
  /\ IF game.leader_id # u
     THEN Rejected
     ELSE /\ CanAccept /\ Accepted(u)
          /\ handlers' = [handlers EXCEPT ![FreeSlot] =
                            [Handler("clear", NoneId) EXCEPT !.pc = "end_answer"]]
          /\ UNCHANGED <<game, stats, timers, hist>>
  /\ UNCHANGED aside

\* callback_end_round after `await query.answer()`
EndAnswered(h) ==
  /\ handlers[h].pc = "end_answer"
  /\ IF ~game.is_game_active
     THEN /\ handlers' = [handlers EXCEPT ![h] = IdleHandler]
          /\ UNCHANGED <<game, timers, hist>>
     ELSE Apply(cancel_timer(h, handlers[h], game, handlers, timers, hist))
  /\ UNCHANGED <<stats, seen, events>>
  /\ UNCHANGED aside

\* cmd_stop
Stop ==
  IF ~game.is_game_active
  THEN Rejected
  ELSE /\ CanAccept /\ Accepted(NoneId)
       /\ Apply(cancel_timer(FreeSlot, Handler("clear", NoneId), game, handlers,
                             timers, hist))
       /\ UNCHANGED <<stats, aside>>

InCompetitors(g, u) == \E i \in 1..Len(g.competitors) : g.competitors[i].user_id = u

\* game.competitors after handle_message has registered and counted u
Attempt(g, u) ==
  IF InCompetitors(g, u)
  THEN [i \in 1..Len(g.competitors) |->
          IF g.competitors[i].user_id = u
          THEN [g.competitors[i] EXCEPT !.attempts_count = @ + 1]
          ELSE g.competitors[i]]
  ELSE Append(g.competitors, [user_id |-> u, attempts_count |-> 1])

\* handle_message past the reset-statistics phrases, with the start of
\* handle_correct_guess
HandleMessage(u, text) ==
  /\ MayAct(u)
  /\ IF ~game.is_game_active
     THEN Rejected
     ELSE IF game.leader_id = u
     THEN /\ Accepted(u)
          /\ game' = [game EXCEPT
                        !.leader_messages = Append(@, text),
                        !.leader_first_message_time = SomeTime,
                        !.guessing_started =
                            IF game.leader_first_message_time = NoneTime THEN TRUE ELSE @]
          /\ hist' = [hist EXCEPT !.said = 1]
          /\ UNCHANGED <<stats, handlers, timers>>
     ELSE IF ~game.guessing_started \/ ~is_single_word_guess(text)
     THEN Rejected
     ELSE LET g1 == [game EXCEPT !.competitors = Attempt(game, u)]
              hs1 == IF InCompetitors(game, u) THEN handlers ELSE Grow(handlers)
          IN /\ Accepted(u)
             /\ UNCHANGED stats
             /\ IF ~is_word_guessed(text, g1.current_word)
                THEN game' = g1 /\ handlers' = hs1 /\ UNCHANGED <<timers, hist>>
                ELSE IF g1.word_guessed
                THEN /\ game' = g1 /\ handlers' = hs1 /\ timers' = timers
                     /\ hist' = Bump("matched", TRUE)
                ELSE /\ CanAccept
                     /\ Apply(cancel_timer(FreeSlot, Handler("guess", u),
                                           [g1 EXCEPT !.word_guessed = TRUE], hs1,
                                           timers, Bump("matched", TRUE)))
  /\ UNCHANGED aside

(* ----------------------- handle_correct_guess ------------------------- *)
\* an exception leaves the handler: the dispatcher logs it and drops the task
Crash(h) == handlers' = [handlers EXCEPT ![h] = IdleHandler]

\* handle_correct_guess as it would be if a violation voided the rewards
RewardedVoided(rec) ==
  LET exp_gained == IF rec.violation THEN 0
                    ELSE calculate_guess_exp(rec.guess_time, 1, Len(rec.elos) + 1)
      elo_change == IF rec.violation THEN 0
                    ELSE calculate_elo_change(rec.wstats.elo_rating, rec.elos,
                                              rec.guess_time)
      experience == rec.wstats.experience + exp_gained
  IN [rec EXCEPT !.pc = "hcg_save_winner", !.comp = NoneId, !.iter = <<>>,
                 !.attached = FALSE, !.broken = FALSE, !.elos = <<>>,
                 !.exp_gained = exp_gained, !.elo_change = elo_change,
                 !.total = Len(rec.elos) + 1,
                 !.wstats = [@ EXCEPT !.words_guessed = @ + 1,
                                      !.experience = experience,
                                      !.level = calculate_level_from_exp(experience),
                                      !.elo_rating = @ + elo_change]]

\* the rewards and the winner's updated row, up to `await update_player_stats`
Rewarded(rec) ==
  LET exp_gained == calculate_guess_exp(rec.guess_time, 1, Len(rec.elos) + 1)
      elo_change == calculate_elo_change(rec.wstats.elo_rating, rec.elos,
                                         rec.guess_time)
      experience == rec.wstats.experience + exp_gained
  IN [rec EXCEPT !.pc = "hcg_save_winner", !.comp = NoneId, !.iter = <<>>,
                 !.attached = FALSE, !.broken = FALSE, !.elos = <<>>,
                 !.exp_gained = exp_gained, !.elo_change = elo_change,
                 !.total = Len(rec.elos) + 1,
                 !.wstats = [@ EXCEPT !.words_guessed = @ + 1,
                                      !.experience = experience,
                                      !.level = calculate_level_from_exp(experience),
                                      !.elo_rating = @ + elo_change]]

\* the for loop over game.competitors.items(), up to its next await
NextCompetitor(rec, ids) ==
  IF ids = <<>> THEN Rewarded(rec)
  ELSE [rec EXCEPT !.pc = "hcg_load_comp", !.comp = Head(ids), !.iter = Tail(ids)]

\* the winner's row is loaded
HcgWinnerLoaded(h) ==
  /\ handlers[h].pc = "hcg_load_winner"
  /\ \E gt \in GuessTimes :
       LET rec == [handlers[h] EXCEPT !.wstats = stats[handlers[h].user],
                                      !.guess_time = gt, !.attached = TRUE]
           ids == [i \in 1..Len(game.competitors) |-> game.competitors[i].user_id]
           NotWinner(id) == id # rec.user
       IN handlers' = [handlers EXCEPT ![h] =
                         NextCompetitor(rec, SelectSeq(ids, NotWinner))]
  /\ UNCHANGED <<game, stats, timers, hist, seen, events>>
  /\ UNCHANGED aside

\* a competitor's row is loaded
HcgCompLoaded(h) ==
  /\ handlers[h].pc = "hcg_load_comp"
  /\ IF handlers[h].broken
     THEN Crash(h)
     ELSE handlers' = [handlers EXCEPT ![h] =
            NextCompetitor([handlers[h] EXCEPT
                              !.elos = Append(@, stats[handlers[h].comp].elo_rating)],
                           handlers[h].iter)]
  /\ UNCHANGED <<game, stats, timers, hist, seen, events>>
  /\ UNCHANGED aside

\* the winner's row is saved
HcgWinnerSaved(h) ==
  /\ handlers[h].pc = "hcg_save_winner"
  /\ stats' = [stats EXCEPT ![handlers[h].user] = handlers[h].wstats]
  /\ hist' = Bump("wins", handlers[h].cur)
  /\ IF game.leader_id # NoneId
     THEN /\ handlers' = [handlers EXCEPT ![h].pc = "hcg_load_leader",
                                          ![h].wstats = DefaultStats,
                                          ![h].key = game.leader_id]
          /\ game' = game
     ELSE /\ handlers' = [handlers EXCEPT ![h].pc = "hcg_send",
                                          ![h].wstats = DefaultStats]
          /\ game' = [game EXCEPT !.is_game_active = FALSE]
  /\ UNCHANGED <<timers, seen, events>>
  /\ UNCHANGED aside

\* handle_correct_guess as it would be without the penalty for a violation
LeaderRewardedNoCut(rec, ls) ==
  LET base == calculate_leader_exp(rec.guess_time, rec.words, TRUE)
      short == IF rec.abuse THEN ls.short_explanations + 1 ELSE ls.short_explanations
      cut == IF rec.abuse /\ short >= 3 THEN Max(10, base \div 2) ELSE base
      experience == ls.experience + cut
  IN [rec EXCEPT !.leader_exp = cut,
                 !.lstats = [ls EXCEPT !.words_explained = @ + 1,
                                       !.short_explanations = short,
                                       !.experience = experience,
                                       !.level = calculate_level_from_exp(experience)]]

\* the leader's updated row, from the loaded row ls
LeaderRewarded(rec, ls) ==
  LET base == calculate_leader_exp(rec.guess_time, rec.words, TRUE)
      short == IF rec.abuse THEN ls.short_explanations + 1 ELSE ls.short_explanations
      cut == IF rec.abuse /\ short >= 3 THEN Max(10, base \div 2) ELSE base
      leader_exp == IF rec.violation THEN Max(5, cut \div 3) ELSE cut
      experience == ls.experience + leader_exp
  IN [rec EXCEPT !.leader_exp = leader_exp,
                 !.lstats = [ls EXCEPT !.words_explained = @ + 1,
                                       !.short_explanations = short,
                                       !.violations = IF rec.violation THEN @ + 1 ELSE @,
                                       !.experience = experience,
                                       !.level = calculate_level_from_exp(experience)]]

\* the leader's row is loaded; the save is keyed by game.leader_id as it is
\* now, and a NULL user_id fails the insert
HcgLeaderLoaded(h) ==
  /\ handlers[h].pc = "hcg_load_leader"
  /\ IF game.leader_id = NoneId
     THEN Crash(h)
     ELSE handlers' = [handlers EXCEPT ![h] =
            [LeaderRewarded(handlers[h], stats[handlers[h].key])
               EXCEPT !.pc = "hcg_save_leader", !.key = game.leader_id]]
  /\ UNCHANGED <<game, stats, timers, hist, seen, events>>
  /\ UNCHANGED aside

\* the leader's row is saved
HcgLeaderSaved(h) ==
  /\ handlers[h].pc = "hcg_save_leader"
  /\ stats' = [stats EXCEPT ![handlers[h].key] = handlers[h].lstats]
  /\ hist' = Bump("lupd", handlers[h].cur)
  /\ game' = [game EXCEPT !.is_game_active = FALSE]
  /\ handlers' = [handlers EXCEPT ![h].pc = "hcg_send", ![h].key = NoneId,
                                  ![h].lstats = DefaultStats]
  /\ UNCHANGED <<timers, seen, events>>
  /\ UNCHANGED aside

\* the victory message is sent
HcgSent(h) ==
  /\ handlers[h].pc = "hcg_send"
  /\ hist' = Bump("victory", handlers[h].cur)
  /\ game' = ClearWin(game)
  /\ handlers' = Detach([handlers EXCEPT ![h] = IdleHandler])
  /\ UNCHANGED <<stats, timers, seen, events>>
  /\ UNCHANGED aside

\* load_player_stats / save_player_stats have no try/except: an exception of
\* db_pool.acquire(), fetchrow or execute leaves through handle_correct_guess
HcgDbFails(h) ==
  /\ handlers[h].pc \in {"hcg_load_winner", "hcg_load_comp", "hcg_save_winner",
                         "hcg_load_leader", "hcg_save_leader"}
  /\ events < MaxEvents /\ events' = events + 1
  /\ Crash(h)
  /\ UNCHANGED <<game, stats, timers, hist, seen>>
  /\ UNCHANGED aside

(* ---------------------------- round_timer ----------------------------- *)
\* Task.cancel() makes the task's pending await raise CancelledError, which
\* round_timer re-raises
TimerCancelled(i) ==
  /\ Live(i) /\ timers[i].cancel
  /\ Settle(game, handlers, [timers EXCEPT ![i] = EndedTimer])
  /\ UNCHANGED <<stats, hist, seen, events>>
  /\ UNCHANGED aside

Runs(i, state) == timers[i].state = state /\ ~timers[i].cancel

\* after asyncio.sleep(ROUND_TIME - WARNING_TIME)
TimerWarn(i) ==
  /\ Runs(i, "sleep1")
  /\ IF ~game.is_game_active \/ game.word_guessed
     THEN Settle(game, handlers, [timers EXCEPT ![i] = EndedTimer])
     ELSE IF ~game.warning_sent
     THEN Settle([game EXCEPT !.warning_sent = TRUE], handlers,
                 [timers EXCEPT ![i].state = "warn_send", ![i].act = TRUE])
     ELSE Settle(game, handlers, [timers EXCEPT ![i].state = "sleep2"])
  /\ UNCHANGED <<stats, hist, seen, events>>
  /\ UNCHANGED aside

\* the warning is sent
TimerWarnSent(i) ==
  /\ Runs(i, "warn_send")
  /\ timers' = [timers EXCEPT ![i].state = "sleep2", ![i].act = FALSE]
  /\ hist' = Bump("warns", timers[i].act)
  /\ UNCHANGED <<game, stats, handlers, seen, events>>
  /\ UNCHANGED aside

\* the two assignments before the time-out message
Deactivate(g) == [g EXCEPT !.is_game_active = FALSE, !.word_guessed = FALSE]

\* after asyncio.sleep(WARNING_TIME); datetime.now() - None raises TypeError
TimerExpire(i) ==
  /\ Runs(i, "sleep2")
  /\ IF ~game.is_game_active \/ game.word_guessed \/ game.round_start_time = NoneTime
     THEN Settle(game, handlers, [timers EXCEPT ![i] = EndedTimer]) /\ hist' = hist
     ELSE IF game.leader_id # NoneId
     THEN /\ Settle(game, handlers,
                    [timers EXCEPT ![i].state = "to_load", ![i].act = TRUE,
                                   ![i].lid = game.leader_id])
          /\ hist' = hist
     ELSE /\ Settle(Deactivate(game), handlers, [timers EXCEPT ![i].state = "to_send"])
          /\ hist' = Bump("timeouts", TRUE)
  /\ UNCHANGED <<stats, seen, events>>
  /\ UNCHANGED aside

\* round_timer as it would be without the floor of the rating
TimedOutNoFloor(ls) ==
  LET experience == ls.experience + calculate_leader_exp(ROUND_TIME, 0, FALSE)
  IN [ls EXCEPT !.words_explained = @ + 1, !.experience = experience,
                !.level = calculate_level_from_exp(experience),
                !.elo_rating = @ - 10]

\* the leader's row after a round nobody guessed
TimedOut(ls) ==
  LET experience == ls.experience + calculate_leader_exp(ROUND_TIME, 0, FALSE)
  IN [ls EXCEPT !.words_explained = @ + 1, !.experience = experience,
                !.level = calculate_level_from_exp(experience),
                !.elo_rating = Max(800, @ - 10)]

\* the leader's row is loaded; the save is keyed by game.leader_id as it is
\* now, and a NULL user_id fails the insert
TimerLeaderLoaded(i) ==
  /\ Runs(i, "to_load")
  /\ IF game.leader_id = NoneId
     THEN Settle(game, handlers, [timers EXCEPT ![i] = EndedTimer])
     ELSE Settle(game, handlers,
                 [timers EXCEPT ![i].state = "to_save",
                                ![i].lstats = TimedOut(stats[timers[i].lid]),
                                ![i].lid = game.leader_id])
  /\ UNCHANGED <<stats, hist, seen, events>>
  /\ UNCHANGED aside

\* the leader's row is saved
TimerLeaderSaved(i) ==
  /\ Runs(i, "to_save")
  /\ stats' = [stats EXCEPT ![timers[i].lid] = timers[i].lstats]
  /\ hist' = [Bump("timeouts", timers[i].act) EXCEPT
                !.penalties = IF timers[i].act THEN @ + 1 ELSE @]
  /\ game' = Deactivate(game)
  /\ timers' = [timers EXCEPT ![i].state = "to_send", ![i].lid = NoneId,
                              ![i].act = FALSE, ![i].lstats = DefaultStats]
  /\ UNCHANGED <<handlers, seen, events>>
  /\ UNCHANGED aside

\* the same exception in round_timer, whose try has no handler for it but
\* `except asyncio.CancelledError`: the task ends at the await
TimerDbFails(i) ==
  /\ Runs(i, "to_load") \/ Runs(i, "to_save")
  /\ events < MaxEvents /\ events' = events + 1
  /\ Settle(game, handlers, [timers EXCEPT ![i] = EndedTimer])
  /\ UNCHANGED <<stats, hist, seen>>
  /\ UNCHANGED aside

\* the time-out message is sent
TimerSent(i) ==
  /\ Runs(i, "to_send")
  /\ Settle(ClearTimeout(game), Detach(handlers), [timers EXCEPT ![i] = EndedTimer])
  /\ UNCHANGED <<stats, hist, seen, events>>
  /\ UNCHANGED aside

(* --------------------------- specification ---------------------------- *)
TimerIds == 1..Len(timers)

Next ==
  \/ \E u \in Players : JoinGame(u)
  \/ \E u \in Players : ShowWord(u)
  \/ \E u \in Players : NewWord(u)
  \/ \E u \in Players : ShareWord(u)
  \/ \E u \in Players : EndRound(u)
  \/ Stop
  \/ \E u \in Players, text \in Texts : HandleMessage(u, text)
  \/ \E h \in HandlerIds : JoinAnswered(h)
  \/ \E h \in HandlerIds : SliSent(h)
  \/ \E h \in HandlerIds : CancelWaitDone(h)
  \/ \E h \in HandlerIds : EndAnswered(h)
  \/ \E h \in HandlerIds : HcgWinnerLoaded(h)
  \/ \E h \in HandlerIds : HcgCompLoaded(h)
  \/ \E h \in HandlerIds : HcgWinnerSaved(h)
  \/ \E h \in HandlerIds : HcgLeaderLoaded(h)
  \/ \E h \in HandlerIds : HcgLeaderSaved(h)
  \/ \E h \in HandlerIds : HcgSent(h)
  \/ \E i \in TimerIds : TimerCancelled(i)
  \/ \E i \in TimerIds : TimerWarn(i)
  \/ \E i \in TimerIds : TimerWarnSent(i)
  \/ \E i \in TimerIds : TimerExpire(i)
  \/ \E i \in TimerIds : TimerLeaderLoaded(i)
  \/ \E i \in TimerIds : TimerLeaderSaved(i)
  \/ \E i \in TimerIds : TimerSent(i)
  \/ \E h \in HandlerIds : HcgDbFails(h)
  \/ \E i \in TimerIds : TimerDbFails(i)

Spec == Init /\ [][Next]_vars

(* --------------------- a round already under way ----------------------- *)
\* The state callback_join_game leaves behind once player 1 has joined and
\* start_round_timer has returned: the round is active, its timer sleeps.
InitRound ==
  /\ \E w \in Words :
       game = [NewGameState EXCEPT !.leader_id = 1, !.current_word = w,
                                   !.is_game_active = TRUE,
                                   !.round_start_time = SomeTime,
                                   !.timer_task = 1]
  /\ stats = [p \in Players |-> DefaultStats]
  /\ handlers = [h \in HandlerIds |-> IdleHandler]
  /\ timers = <<NewTimer>>
  /\ hist = NoHist
  /\ seen = 1
  /\ events = 0
  /\ reset_requests = [p \in Players |-> NoRequest]
  /\ reset_tasks = <<>>
  /\ other_stats = [p \in Players |-> DefaultStats]
  /\ calc = NoCalc

\* From there on: the leader changes the word, everybody writes messages,
\* the handlers and the timers take their steps.
NextRound ==
  \/ \E u \in Players : NewWord(u)
  \/ \E u \in Players : ShareWord(u)
  \/ \E u \in Players, text \in Texts : HandleMessage(u, text)
  \/ \E h \in HandlerIds : CancelWaitDone(h)
  \/ \E h \in HandlerIds : HcgWinnerLoaded(h)
  \/ \E h \in HandlerIds : HcgCompLoaded(h)
  \/ \E h \in HandlerIds : HcgWinnerSaved(h)
  \/ \E h \in HandlerIds : HcgLeaderLoaded(h)
  \/ \E h \in HandlerIds : HcgLeaderSaved(h)
  \/ \E h \in HandlerIds : HcgSent(h)
  \/ \E i \in TimerIds : TimerCancelled(i)
  \/ \E i \in TimerIds : TimerWarn(i)
  \/ \E i \in TimerIds : TimerWarnSent(i)
  \/ \E i \in TimerIds : TimerExpire(i)
  \/ \E i \in TimerIds : TimerLeaderLoaded(i)
  \/ \E i \in TimerIds : TimerLeaderSaved(i)
  \/ \E i \in TimerIds : TimerSent(i)
  \/ \E h \in HandlerIds : HcgDbFails(h)
  \/ \E i \in TimerIds : TimerDbFails(i)

SpecRound == InitRound /\ [][NextRound]_vars

(* ------------- a round under way, the leader's past varying ------------ *)
\* the row of a leader two of whose explained words were guessed after an
\* explanation of at most 3 words
ShortTwice ==
  [DefaultStats EXCEPT !.words_explained = 2, !.short_explanations = 2,
                       !.experience = 2 * calculate_leader_exp(SomeTime, 0, TRUE),
                       !.level = calculate_level_from_exp(
                                   2 * calculate_leader_exp(SomeTime, 0, TRUE))]

\* as InitRound, the leader's row being a new one or ShortTwice
InitShort ==
  /\ \E w \in Words :
       game = [NewGameState EXCEPT !.leader_id = 1, !.current_word = w,
                                   !.is_game_active = TRUE,
                                   !.round_start_time = SomeTime,
                                   !.timer_task = 1]
  /\ \E row \in {DefaultStats, ShortTwice} :
       stats = [p \in Players |-> IF p = 1 THEN row ELSE DefaultStats]
  /\ handlers = [h \in HandlerIds |-> IdleHandler]
  /\ timers = <<NewTimer>>
  /\ hist = NoHist
  /\ seen = 1
  /\ events = 0
  /\ reset_requests = [p \in Players |-> NoRequest]
  /\ reset_tasks = <<>>
  /\ other_stats = [p \in Players |-> DefaultStats]
  /\ calc = NoCalc

SpecShort == InitShort /\ [][NextRound]_vars

(* ------------------ a leader whose rating is at the floor -------------- *)
\* the row of a leader whose rounds have timed out until the rating stopped
\* falling
RECURSIVE Floored(_)
Floored(row) == IF row.elo_rating <= 800 THEN row ELSE Floored(TimedOut(row))

\* as InitRound, the leader's row being a new one or one at the floor
InitLow ==
  /\ \E w \in Words :
       game = [NewGameState EXCEPT !.leader_id = 1, !.current_word = w,
                                   !.is_game_active = TRUE,
                                   !.round_start_time = SomeTime,
                                   !.timer_task = 1]
  /\ \E row \in {DefaultStats, Floored(DefaultStats)} :
       stats = [p \in Players |-> IF p = 1 THEN row ELSE DefaultStats]
  /\ handlers = [h \in HandlerIds |-> IdleHandler]
  /\ timers = <<NewTimer>>
  /\ hist = NoHist
  /\ seen = 1
  /\ events = 0
  /\ reset_requests = [p \in Players |-> NoRequest]
  /\ reset_tasks = <<>>
  /\ other_stats = [p \in Players |-> DefaultStats]
  /\ calc = NoCalc

SpecLow == InitLow /\ [][NextRound]_vars

(* --------------------- after a round ended by hand --------------------- *)
\* The state /stop or end_round leaves behind when the leader had written
\* an explanation: every per-round field is back to its default except
\* leader_first_message_time, which neither handler resets.
InitStopped ==
  /\ game = [NewGameState EXCEPT !.leader_first_message_time = SomeTime]
  /\ stats = [p \in Players |-> DefaultStats]
  /\ handlers = [h \in HandlerIds |-> IdleHandler]
  /\ timers = <<>>
  /\ hist = NoHist
  /\ seen = 0
  /\ events = 0
  /\ reset_requests = [p \in Players |-> NoRequest]
  /\ reset_tasks = <<>>
  /\ other_stats = [p \in Players |-> DefaultStats]
  /\ calc = NoCalc

SpecStopped == InitStopped /\ [][Next]_vars

(* ------------------ a round under way, with /stats --------------------- *)
\* message.from_user.username of every player
UserName == "user"

\* cmd_stats up to `await get_player_stats_obj`
Stats(u) ==
  /\ MayAct(u)
  /\ CanAccept /\ Accepted(u)
  /\ handlers' = [handlers EXCEPT ![FreeSlot] =
                    [Handler("stats", u) EXCEPT !.pc = "stats_load"]]
  /\ UNCHANGED <<game, stats, timers, hist>>
  /\ UNCHANGED aside

\* the row is loaded; it is saved back when its username is not the sender's
StatsLoaded(h) ==
  /\ handlers[h].pc = "stats_load"
  /\ IF stats[handlers[h].user].username # UserName
     THEN handlers' = [handlers EXCEPT
                         ![h].pc = "stats_save",
                         ![h].wstats = [stats[handlers[h].user] EXCEPT
                                          !.username = UserName]]
     ELSE handlers' = [handlers EXCEPT ![h] = IdleHandler]
  /\ UNCHANGED <<game, stats, timers, hist, seen, events>>
  /\ UNCHANGED aside

\* the row is saved; the answer that follows changes nothing
StatsSaved(h) ==
  /\ handlers[h].pc = "stats_save"
  /\ stats' = [stats EXCEPT ![handlers[h].user] = handlers[h].wstats]
  /\ handlers' = [handlers EXCEPT ![h] = IdleHandler]
  /\ UNCHANGED <<game, timers, hist, seen, events>>
  /\ UNCHANGED aside

NextStats ==
  \/ NextRound
  \/ \E u \in Players : Stats(u)
  \/ \E h \in HandlerIds : StatsLoaded(h)
  \/ \E h \in HandlerIds : StatsSaved(h)

SpecStats == InitRound /\ [][NextStats]_vars

(* ------------------- the scoring functions, called --------------------- *)
\* guess times in seconds, on both sides of every bound of a speed band
Times == {0, 8, 9, 10, 19, 20, 39, 40, 79, 80, 200}

Positions == 1..3

Totals == 0..3

\* elo_rating values: the floor of the time-out penalty, the default, and up
Ratings == {800, 1000, 1010, 1500, 2000}

\* competitor_elos of handle_correct_guess for up to two other competitors
EloLists ==
  {<<>>} \cup {<<a>> : a \in Ratings} \cup {<<a, b>> : a \in Ratings, b \in Ratings}

GuessExpCalls ==
  {[NoCalc EXCEPT !.fn = "calculate_guess_exp", !.guess_time = t,
                  !.position = p, !.total = n] :
     t \in Times, p \in Positions, n \in Totals}

EloChangeCalls ==
  {[NoCalc EXCEPT !.fn = f, !.guess_time = t, !.winner_elo = w, !.elos = es] :
     f \in {"calculate_elo_change", "handle_correct_guess"},
     t \in GuessTimes, w \in Ratings, es \in EloLists}

\* no game anywhere; one call is about to be made
InitScore ==
  /\ game = NewGameState
  /\ stats = [p \in Players |-> DefaultStats]
  /\ handlers = [h \in HandlerIds |-> IdleHandler]
  /\ timers = <<>>
  /\ hist = NoHist
  /\ seen = 0
  /\ events = 0
  /\ reset_requests = [p \in Players |-> NoRequest]
  /\ reset_tasks = <<>>
  /\ other_stats = [p \in Players |-> DefaultStats]
  /\ calc \in GuessExpCalls \cup EloChangeCalls

Returns(fn, value) ==
  /\ calc.fn = fn /\ ~calc.done
  /\ calc' = [calc EXCEPT !.done = TRUE, !.out = value]
  /\ UNCHANGED <<game, stats, handlers, timers, hist, seen, events,
                 reset_requests, reset_tasks, other_stats>>

CallGuessExp ==
  Returns("calculate_guess_exp",
          calculate_guess_exp(calc.guess_time, calc.position, calc.total))

CallEloChange ==
  Returns("calculate_elo_change",
          calculate_elo_change(calc.winner_elo, calc.elos, calc.guess_time))

\* handle_correct_guess from the rewards to the winner's updated row, for a
\* winner whose loaded row has the rating calc.winner_elo: the rating it saves
CallRewarded ==
  Returns("handle_correct_guess",
          Rewarded([IdleHandler EXCEPT
                      !.guess_time = calc.guess_time, !.elos = calc.elos,
                      !.wstats = [DefaultStats EXCEPT !.elo_rating = calc.winner_elo]]
                  ).wstats.elo_rating)

NextScore == CallGuessExp \/ CallEloChange \/ CallRewarded

SpecScore == InitScore /\ [][NextScore]_vars

(* ---------------------- the reset of one's statistics ----------------- *)
\* message.chat.id: the chat of the game and a second one
Chats == {1, 2}

\* a row that is not the default one: a player who has won a round alone
Played ==
  [DefaultStats EXCEPT !.words_guessed = 1,
                       !.experience = calculate_guess_exp(0, 1, 1),
                       !.level = calculate_level_from_exp(calculate_guess_exp(0, 1, 1)),
                       !.elo_rating = @ + calculate_elo_change(@, <<>>, 0)]

\* asyncio.create_task(reset_stats_timeout(user_id, chat_id, ...))
NewResetTask(u, c) == [user |-> u, chat |-> c, state |-> "sleep", cancel |-> FALSE]

ResetTaskIds == 1..Len(reset_tasks)

\* the task can still reach line 1075
Sleeping(i) == reset_tasks[i].state = "sleep" /\ ~reset_tasks[i].cancel

\* nobody has asked for a reset; every player has played in both chats
InitReset ==
  /\ game = NewGameState
  /\ stats = [p \in Players |-> Played]
  /\ handlers = [h \in HandlerIds |-> IdleHandler]
  /\ timers = <<>>
  /\ hist = NoHist
  /\ seen = 0
  /\ events = 0
  /\ reset_requests = [p \in Players |-> NoRequest]
  /\ reset_tasks = <<>>
  /\ other_stats = [p \in Players |-> Played]
  /\ calc = NoCalc

\* handle_message, `message_text.lower() == "крокодил сбрось мой рейтинг"`,
\* up to the `await message.answer` of line 1104
ResetTrigger(u, c) ==
  /\ MayAct(u)
  /\ IF reset_requests[u] # NoRequest
     THEN Rejected
     ELSE /\ CanAccept /\ Accepted(u)
          /\ handlers' = [handlers EXCEPT ![FreeSlot] =
                            [Handler("reset", u) EXCEPT !.pc = "reset_ask", !.chat = c]]
          /\ UNCHANGED <<game, stats, timers, hist, reset_requests, reset_tasks,
                         other_stats, calc>>

\* the answer is out: the task is created and the request stored
ResetAsked(h) ==
  /\ handlers[h].pc = "reset_ask"
  /\ reset_tasks' = Append(reset_tasks, NewResetTask(handlers[h].user, handlers[h].chat))
  /\ reset_requests' = [reset_requests EXCEPT ![handlers[h].user] =
                          [chat_id |-> handlers[h].chat,
                           cancel_task |-> Len(reset_tasks) + 1]]
  /\ handlers' = [handlers EXCEPT ![h] = IdleHandler]
  /\ UNCHANGED <<game, stats, timers, hist, seen, events, other_stats, calc>>

\* handle_message for "СБРОС" without the check of line 1126
ResetConfirmAnyChat(u, c) ==
  /\ MayAct(u)
  /\ IF reset_requests[u] = NoRequest
     THEN Rejected
     ELSE /\ CanAccept /\ Accepted(u)
          /\ reset_tasks' = [reset_tasks EXCEPT
                               ![reset_requests[u].cancel_task].cancel = TRUE]
          /\ reset_requests' = [reset_requests EXCEPT ![u] = NoRequest]
          /\ handlers' = [handlers EXCEPT ![FreeSlot] =
                            [Handler("reset", u) EXCEPT !.pc = "reset_save", !.chat = c]]
          /\ UNCHANGED <<game, stats, timers, hist, other_stats, calc>>

\* handle_message for "СБРОС", up to `await update_player_stats`; with no
\* request pending the message goes on to the game part, where no game is
\* active
ResetConfirm(u, c) ==
  /\ MayAct(u)
  /\ IF reset_requests[u] = NoRequest \/ reset_requests[u].chat_id # c
     THEN Rejected
     ELSE /\ CanAccept /\ Accepted(u)
          /\ reset_tasks' = [reset_tasks EXCEPT
                               ![reset_requests[u].cancel_task].cancel = TRUE]
          /\ reset_requests' = [reset_requests EXCEPT ![u] = NoRequest]
          /\ handlers' = [handlers EXCEPT ![FreeSlot] =
                            [Handler("reset", u) EXCEPT !.pc = "reset_save", !.chat = c]]
          /\ UNCHANGED <<game, stats, timers, hist, other_stats, calc>>

\* the default row is saved; the closing answer changes nothing any more
ResetSaved(h) ==
  /\ handlers[h].pc = "reset_save"
  /\ IF handlers[h].chat = 1
     THEN /\ stats' = [stats EXCEPT ![handlers[h].user] = DefaultStats]
          /\ other_stats' = other_stats
     ELSE /\ other_stats' = [other_stats EXCEPT ![handlers[h].user] = DefaultStats]
          /\ stats' = stats
  /\ handlers' = [handlers EXCEPT ![h] = IdleHandler]
  /\ UNCHANGED <<game, timers, hist, seen, events, reset_requests, reset_tasks, calc>>

\* Task.cancel(): the pending await of reset_stats_timeout raises
\* CancelledError, which line 1083 catches
ResetTaskCancelled(i) ==
  /\ reset_tasks[i].state # "done" /\ reset_tasks[i].cancel
  /\ reset_tasks' = [reset_tasks EXCEPT ![i].state = "done"]
  /\ UNCHANGED <<game, stats, handlers, timers, hist, seen, events,
                 reset_requests, other_stats, calc>>

\* after asyncio.sleep(15), up to `await bot.send_message`
ResetExpire(i) ==
  /\ Sleeping(i)
  /\ IF reset_requests[reset_tasks[i].user] # NoRequest
     THEN /\ reset_requests' = [reset_requests EXCEPT ![reset_tasks[i].user] = NoRequest]
          /\ reset_tasks' = [reset_tasks EXCEPT ![i].state = "send"]
     ELSE /\ reset_requests' = reset_requests
          /\ reset_tasks' = [reset_tasks EXCEPT ![i].state = "done"]
  /\ UNCHANGED <<game, stats, handlers, timers, hist, seen, events, other_stats, calc>>

\* the notice of the expiry is sent
ResetNotified(i) ==
  /\ reset_tasks[i].state = "send" /\ ~reset_tasks[i].cancel
  /\ reset_tasks' = [reset_tasks EXCEPT ![i].state = "done"]
  /\ UNCHANGED <<game, stats, handlers, timers, hist, seen, events,
                 reset_requests, other_stats, calc>>

NextReset ==
  \/ \E u \in Players, c \in Chats : ResetTrigger(u, c)
  \/ \E u \in Players, c \in Chats : ResetConfirm(u, c)
  \/ \E h \in HandlerIds : ResetAsked(h)
  \/ \E h \in HandlerIds : ResetSaved(h)
  \/ \E i \in ResetTaskIds : ResetTaskCancelled(i)
  \/ \E i \in ResetTaskIds : ResetExpire(i)
  \/ \E i \in ResetTaskIds : ResetNotified(i)

SpecReset == InitReset /\ [][NextReset]_vars

(* ------------------------------ claims -------------------------------- *)
Busy(h) == handlers[h].pc # "idle"

\* a handle_correct_guess invocation that has not returned yet
Finalizing(h) == Busy(h) /\ handlers[h].kind = "guess"

\* C1: once a round instance has seen two or more matching guesses and every
\* handle_correct_guess has returned, the instance has exactly one Win
\* resolution: one update of the winner's row, one of the leader's row and
\* one victory message.
C1_ExactlyOneWin ==
  (hist.matched >= 2 /\ \A h \in HandlerIds : ~Finalizing(h))
    => (hist.wins = 1 /\ hist.lupd = 1 /\ hist.victory = 1)

\* C2: the leader's time-out update and the updates of a Win are never both
\* applied for the same round instance.
C2_TimeoutOrWin ==
  ~(hist.penalties >= 1 /\ (hist.wins >= 1 \/ hist.lupd >= 1))

\* C3: every round_timer task that has not ended is the one
\* GameState.timer_task references, so there is at most one of them.
C3_OneLiveTimer ==
  \A i \in TimerIds : Live(i) => game.timer_task = i

\* C4: a round_timer task created in an earlier round instance never warns
\* or times out the current one.
C4_NoStaleTimerActs ==
  \A i \in TimerIds : timers[i].act => timers[i].cur

\* C5: in every state a handler can observe, is_game_active = False implies
\* that leader_id, current_word and round_start_time are None and that
\* competitors is empty.
C5_InactiveIsCleared ==
  ~game.is_game_active =>
    /\ game.leader_id = NoneId
    /\ game.current_word = NoneWord
    /\ game.round_start_time = NoneTime
    /\ game.competitors = <<>>

\* C6: word_guessed is True only while a handle_correct_guess invocation is
\* in progress.
C6_GuessedWhileFinalizing ==
  game.word_guessed => \E h \in HandlerIds : Finalizing(h)

\* C7: a round instance gets at most one 30-seconds-left warning and at most
\* one time-out resolution.
C7_OneWarningOneTimeout ==
  hist.warns <= 1 /\ hist.timeouts <= 1

C10_WinnerBecomesLeader ==
  [][\A h \in HandlerIds :
       (/\ handlers[h].pc = "hcg_send" /\ ~handlers[h].violation
        /\ handlers[h].cur /\ handlers[h].leader_exp > 0
        /\ \A k \in HandlerIds : handlers'[k].pc = "idle")
         => /\ game'.is_game_active
            /\ game'.leader_id = handlers[h].user
            /\ game'.current_word # NoneWord
            /\ game'.timer_task # 0
    ]_vars

\* C11: there is a per-round attempt ceiling: once a guesser's
\* attempts_count has reached it, a further single-word message of that
\* player changes nothing, so no attempts_count ever exceeds the ceiling.
C11_AttemptCeiling ==
  \E ceiling \in 1..(MaxEvents - 2) :
    \A i \in 1..Len(game.competitors) :
      game.competitors[i].attempts_count <= ceiling

\* C13: an end_round request of a player who is not the leader changes
\* neither the GameState, nor the timers, nor any stats row, nor starts a
\* handler.
C13_EndRoundNotLeader ==
  [][\A u \in Players :
       (game.leader_id # u /\ EndRound(u))
         => UNCHANGED <<game, stats, timers, handlers>>
    ]_vars

\* a round is under way with a live timer, and a player who is not its
\* leader is there to press end_round
C13_Witness ==
  /\ game.is_game_active /\ game.leader_id = 1
  /\ game.timer_task # 0 /\ Live(game.timer_task)
  /\ MayAct(2) /\ CanAccept /\ events < MaxEvents

\* C14: the time-out penalty (and the +10 experience) is applied exactly
\* once per timed-out round: a round instance whose time-out message is
\* out has had one update of the leader's row, no more.
C14_PenaltyOnce ==
  hist.penalties <= 1

\* C12: when a stats load or save raises during the resolution of a win
\* or of a time-out, the round is still concluded; at the least the game is
\* not left active with no live timer.
C12_DbFailureConcludes ==
  [][((\E h \in HandlerIds : HcgDbFails(h)) \/ (\E i \in TimerIds : TimerDbFails(i)))
       => (game'.is_game_active
             => \E i \in 1..Len(timers') : ~TimerDone(timers'[i]))
    ]_vars

\* The scenario of C15 at the moment handle_correct_guess has computed all
\* the rewards: the explanation totals 2 words and is no violation, the
\* winner is the only competitor and guessed within 8 seconds.
Scenario(h) ==
  /\ handlers[h].pc = "hcg_save_leader"
  /\ handlers[h].words = 2 /\ ~handlers[h].violation
  /\ handlers[h].guess_time = 8
  /\ handlers[h].total = 1

\* C15: in the scenario the guesser earns 40 + 80 + 30 experience and 10
\* rating points, and the leader the award of calculate_leader_exp for an
\* explanation that earns no quality bonus.
C15_ScenarioAwards ==
  \A h \in HandlerIds :
    Scenario(h) => /\ handlers[h].exp_gained = 40 + 80 + 30
                   /\ handlers[h].elo_change = 10
                   /\ handlers[h].leader_exp = 100

\* C15 as the code has it: the leader's award of 100 is halved from the
\* leader's third short explanation (at most 3 words) on.
C15_ScenarioAwardsHalved ==
  \A h \in HandlerIds :
    Scenario(h) => /\ handlers[h].exp_gained = 40 + 80 + 30
                   /\ handlers[h].elo_change = 10
                   /\ handlers[h].leader_exp =
                        IF handlers[h].lstats.short_explanations >= 3
                        THEN 50 ELSE 100

\* the scenario has happened to a leader with a new row
C15_Witness ==
  \E h \in HandlerIds :
    /\ Scenario(h) /\ handlers[h].cur
    /\ handlers[h].lstats.short_explanations = 1
    /\ handlers[h].leader_exp = 100
    /\ stats[handlers[h].user].experience = 150
    /\ stats[handlers[h].user].elo_rating = 1010

\* C16: calculate_elo_change returns at least 5 whatever the ratings and the
\* guess time, and exactly 10 for an empty competitor list; so the rating
\* a Win saves for the winner is not below the one it loaded.
C16_EloChangeFloor ==
  /\ (calc.done /\ calc.fn = "calculate_elo_change")
       => /\ calc.out >= 5
          /\ calc.elos = <<>> => calc.out = 10
  /\ (calc.done /\ calc.fn = "handle_correct_guess")
       => calc.out >= calc.winner_elo + 5

\* the floor has decided the result: a winner rated far above the others
C16_Witness ==
  /\ calc.done /\ calc.fn = "calculate_elo_change"
  /\ calc.elos # <<>> /\ calc.out = 5
  /\ calculate_elo_change_raw(calc.winner_elo, calc.elos, calc.guess_time) < 5

\* C17: calculate_guess_exp does not grow with guess_time, position and
\* total_competitors being fixed; at equal guess_time the first guesser
\* among several earns more than a first guesser alone, who earns more than
\* anybody who is not first.
C17_GuessExpOrder ==
  (calc.done /\ calc.fn = "calculate_guess_exp") =>
    /\ \A t \in Times :
         t >= calc.guess_time
           => calculate_guess_exp(t, calc.position, calc.total) <= calc.out
    /\ (calc.position = 1 /\ calc.total > 1)
         => \A n \in Totals :
              n <= 1 => calc.out > calculate_guess_exp(calc.guess_time, 1, n)
    /\ (calc.position = 1 /\ calc.total <= 1)
         => \A p \in Positions, n \in Totals :
              p > 1 => calc.out > calculate_guess_exp(calc.guess_time, p, n)

\* a first guesser among several, in the second speed band
C17_Witness ==
  /\ calc.done /\ calc.fn = "calculate_guess_exp"
  /\ calc.position = 1 /\ calc.total > 1
  /\ calc.guess_time = 19 /\ calc.out = 40 + 50 + 60

\* C18: a player has at most one reset_stats_timeout task that can still
\* expire a request, however fast the phrase is sent twice.
C18_OneResetTask ==
  \A u \in Players :
    Cardinality({i \in ResetTaskIds : reset_tasks[i].user = u /\ Sleeping(i)}) <= 1

\* C19: "СБРОС" sent in a chat other than the one of the pending request
\* resets no row and leaves the request and its task as they are.
C19_WrongChatConfirm ==
  [][\A u \in Players, c \in Chats :
       (reset_requests[u] # NoRequest /\ reset_requests[u].chat_id # c
          /\ ResetConfirm(u, c))
         => UNCHANGED <<reset_requests, reset_tasks, stats, other_stats, handlers>>
    ]_vars

\* player 1 has a request pending in chat 1, its task asleep, and can still
\* send a message
C19_Witness ==
  /\ reset_requests[1] # NoRequest /\ reset_requests[1].chat_id = 1
  /\ Sleeping(reset_requests[1].cancel_task)
  /\ CanAccept /\ events < MaxEvents

\* C20: a reset_stats_timeout task removes no request but the one it was
\* created for.
C20_ExpiryRemovesOwn ==
  [][\A i \in ResetTaskIds :
       (ResetExpire(i) /\ reset_requests[reset_tasks[i].user] # NoRequest)
         => reset_requests[reset_tasks[i].user].cancel_task = i
    ]_vars

\* the round is active, no handler is running and no round_timer task is
\* alive: nothing but a further press or command ends this round
Stuck ==
  /\ game.is_game_active
  /\ \A h \in HandlerIds : ~Busy(h)
  /\ \A i \in TimerIds : ~Live(i)

\* C21: an active round always has something that will end it: short of a
\* failing database call, no step leads to a state where the round is
\* active with no handler running and no live timer.
C21_ActiveHasTimer ==
  [][(~Stuck /\ Stuck')
       => \/ \E h \in HandlerIds : HcgDbFails(h)
          \/ \E i \in TimerIds : TimerDbFails(i)
    ]_vars

\* C22: no update of a stats row is lost: no save overwrites a row with a
\* stale copy, so what a row has accumulated (words guessed and explained,
\* experience) never shrinks.
C22_NoLostUpdate ==
  [][\A p \in Players :
       /\ stats'[p].words_guessed >= stats[p].words_guessed
       /\ stats'[p].words_explained >= stats[p].words_explained
       /\ stats'[p].experience >= stats[p].experience
    ]_vars

\* 1 plus the number of competitors whose first attempt came before u's:
\* game.competitors keeps the order in which its entries were made
PositionOf(u) ==
  1 + Cardinality({i \in 1..Len(game.competitors) :
                     \E k \in 1..Len(game.competitors) :
                        /\ game.competitors[k].user_id = u
                        /\ i < k})

\* C23: the experience of a Win is computed with the winner's position
\* among the competitors, so a winner who was not the first to attempt
\* earns no first-place bonus.
C23_PositionCounted ==
  \A h \in HandlerIds :
    (handlers[h].pc = "hcg_save_winner" /\ handlers[h].cur
       /\ InCompetitors(game, handlers[h].user))
      => handlers[h].exp_gained =
           calculate_guess_exp(handlers[h].guess_time, PositionOf(handlers[h].user),
                               handlers[h].total)

C25_WinAfterExplanation ==
  hist.wins >= 1 => hist.said >= 1

\* C26: a message of the leader during an active round is appended to
\* leader_messages and, when it is the first one of the round, stamps
\* leader_first_message_time and sets guessing_started; it changes nothing
\* else (the leader does not become a competitor, nothing is resolved, even
\* when the text is the secret word).  A message while the round is
\* inactive changes nothing.
C26_LeaderOnlyExplains ==
  [][\A u \in Players : \A text \in Texts :
       HandleMessage(u, text)
         => /\ ~game.is_game_active
                 => UNCHANGED <<game, stats, handlers, timers>>
            /\ (game.is_game_active /\ game.leader_id = u)
                 => /\ game' =
                         [game EXCEPT
                            !.leader_messages = Append(@, text),
                            !.leader_first_message_time =
                                IF game.leader_messages = <<>> THEN SomeTime ELSE @,
                            !.guessing_started =
                                IF game.leader_messages = <<>> THEN TRUE ELSE @]
                    /\ UNCHANGED <<stats, handlers, timers>>
    ]_vars

\* C27: whenever guessing_started is True, leader_messages is not empty and
\* leader_first_message_time is set.
C27_OpenAfterExplanation ==
  game.guessing_started
    => /\ game.leader_messages # <<>>
       /\ game.leader_first_message_time # NoneTime

\* the leader has written twice and the guessing is open
C27_Witness ==
  /\ game.is_game_active /\ game.guessing_started
  /\ Len(game.leader_messages) = 2
  /\ game.leader_first_message_time = SomeTime

\* the step in which cmd_stop or callback_end_round, its cancel_timer
\* done, resets the fields of an active round
ManualEnd ==
  /\ game.is_game_active /\ ~game'.is_game_active
  /\ \/ Stop
     \/ \E h \in HandlerIds :
          \/ EndAnswered(h)
          \/ handlers[h].kind = "clear" /\ CancelWaitDone(h)

\* C28: when the leader's end_round or a /stop has ended an active round,
\* every per-round field of the GameState has the value of a new GameState
\* (no leader, no word, no start time, no leader messages, no first-message
\* time, guessing closed, no competitors, no timer task, no warning sent)
\* and no row of statistics has changed.
C28_ManualEndIsFresh ==
  [][ManualEnd => (game' = NewGameState /\ stats' = stats)]_vars

\* C29: an active round has a leader and a secret word, also while a
\* join_game interleaves with the tail of handle_correct_guess or of the
\* time-out.
C29_ActiveHasLeaderAndWord ==
  game.is_game_active
    => (game.leader_id # NoneId /\ game.current_word # NoneWord)

\* C30: while a round is active with a leader, no step makes another
\* player the leader: a press of join_game (two presses on an idle chat
\* included), show_word, new_word, share_word or end_round by anyone else
\* changes nothing.
C30_NoTakeover ==
  [][(game.is_game_active /\ game.leader_id # NoneId /\ game'.leader_id # NoneId)
       => game'.leader_id = game.leader_id
    ]_vars

\* C31: every stored row of statistics has a rating of at least 800,
\* whatever wins and time-outs (overlapping ones included) have been saved.
C31_RatingFloor ==
  \A p \in Players : stats[p].elo_rating >= 800

\* a time-out was saved for a leader whose rating was at the floor, and the
\* rating stayed there
C31_Witness ==
  /\ hist.penalties >= 1
  /\ stats[1].elo_rating = 800
  /\ stats[1].words_explained = Floored(DefaultStats).words_explained + 1

\* C32: every stored row has level = calculate_level_from_exp(experience),
\* and no save of a win, a time-out or /stats lowers a player's experience.
C32_LevelFollowsExperience ==
  [][\A p \in Players :
       /\ stats'[p].level = calculate_level_from_exp(stats'[p].experience)
       /\ stats'[p].experience >= stats[p].experience
    ]_vars
====
